---- MODULE Spec2Model ----
(***************************************************************************)
(* FlightDrop: the date sweep of AmadeusProvider.search_top, the token     *)
(* cache of AmadeusProvider._get_token, the offer selection at the end of  *)
(* search_top and the per-route loop of cli.run_check.                     *)
(*                                                                         *)
(* Text is a sequence of character codes, so that slicing ([:10]) and the  *)
(* lexicographic order of sorted() are computed as Python computes them.   *)
(* None is the empty sequence: every test the code makes on an optional    *)
(* text field is a truthiness test, which None and "" both fail.           *)
(* An optional integer is a sequence of length 0 (None) or 1.              *)
(* A date object is its ordinal in a window that starts at 2024-12-30 and  *)
(* crosses the year boundary; a price is an integer.                       *)
(***************************************************************************)
EXTENDS Integers, Sequences, FiniteSets, TLC

VARIABLES
    pc,            \* position of run_check / search_top
    routeIdx,      \* 1-based index in config.routes of the route at hand
    route,         \* the RouteConfig at hand, top_n apart
    route_top_n,   \* top_n of the route at hand, None until search_top reads it
    today,         \* date.today() as search_top read it, None if it did not
    max_span,      \* search_top: max_span
    start_date,    \* search_top: start_date
    span,          \* search_top: span
    return_dates,  \* search_top: return_dates
    offset,        \* search_top: offset of the outer loop
    rpos,          \* search_top: 1-based position of the inner loop in return_dates
    offers,        \* search_top: offers accumulated so far
    visited,       \* departure_date of every outer iteration entered so far
    events,        \* progress notifications printed and fetch calls issued, in order
    result,        \* what search_top returned to run_check for the route at hand
    raised,        \* the ProviderError search_top raised for the route at hand, or ""
    outcomes,      \* run_check: per processed route, the line it printed
    history,       \* storage: the records appended by append_history
    exit_code,     \* run_check: exit_code
    token,         \* AmadeusProvider._token, "" for None
    token_expiry,  \* AmadeusProvider._token_expiry
    now,           \* time.time()
    credentials,   \* TRUE iff client_id and client_secret are both set
    acquired,      \* the last token the auth endpoint granted, when and for how long
    last_call,     \* what the last _get_token call did
    sel_offers,    \* selection check: the accumulated offers handed to the selection
    sel_top_n,     \* selection check: top_n
    sel_out,       \* selection check: the list returned
    par_raw,       \* parsing check: the raw offer of the response
    par_carriers,  \* parsing check: the carrier dictionary of the response
    par_out        \* parsing check: the FlightOffer built, None before

vars == <<pc, routeIdx, route, route_top_n, today, max_span, start_date, span, return_dates, offset,
          rpos, offers, visited, events, result, raised, outcomes, history, exit_code,
          token, token_expiry, now, credentials, acquired, last_call,
          sel_offers, sel_top_n, sel_out, par_raw, par_carriers, par_out>>

sweepVars == <<pc, routeIdx, route, route_top_n, today, max_span, start_date, span, return_dates,
               offset, rpos, offers, visited, events, result, raised, outcomes,
               history, exit_code>>
tokenVars == <<token, token_expiry, now, credentials, acquired, last_call>>
selVars == <<sel_offers, sel_top_n, sel_out>>
parseVars == <<par_raw, par_carriers, par_out>>

----------------------------------------------------------------------------
(* Bounds of the model *)

NumRoutes == 2
MaxDaysAhead == 2
MaxSpanDays == 2
MaxReturnDays == 1
MaxTopN == 2
MaxOffers == 3
MaxTime == 4
MaxSegments == 2

----------------------------------------------------------------------------
(* Text and dates *)

None == <<>>

Min(a, b) == IF a < b THEN a ELSE b
Max(a, b) == IF a > b THEN a ELSE b

Digit(n) == 48 + n

\* "unknown" and "oneway"
Unknown == <<117, 110, 107, 110, 111, 119, 110>>
Oneway == <<111, 110, 101, 119, 97, 121>>

\* s[:n]
Prefix(s, n) == SubSeq(s, 1, Min(n, Len(s)))

\* s < t for two str values: the order sorted() uses
RECURSIVE StrLess(_, _)
StrLess(s, t) ==
    IF t = <<>> THEN FALSE
    ELSE IF s = <<>> THEN TRUE
    ELSE IF Head(s) # Head(t) THEN Head(s) < Head(t)
    ELSE StrLess(Tail(s), Tail(t))

\* year, month, day of the date with ordinal o; ordinal 0 is 2024-12-30
YMD(o) == IF o <= 1 THEN <<2024, 12, 30 + o>> ELSE <<2025, 1, o - 1>>

DateWindow == 0..32

\* date.isoformat(): YYYY-MM-DD
isoformat(o) ==
    LET y == YMD(o)[1]
        m == YMD(o)[2]
        d == YMD(o)[3]
    IN  <<Digit(y \div 1000), Digit((y \div 100) % 10), Digit((y \div 10) % 10),
          Digit(y % 10), 45, Digit(m \div 10), Digit(m % 10), 45,
          Digit(d \div 10), Digit(d % 10)>>

\* date.fromisoformat(s): the date, or ValueError for text that is no date
IsIsoDate(s) == \E o \in DateWindow : isoformat(o) = s
fromisoformat(s) == CHOOSE o \in DateWindow : isoformat(o) = s

\* an ISO-8601 timestamp of the remote service: the date, "T", the hour
Timestamp(o, h) == isoformat(o) \o <<84, Digit(h \div 10), Digit(h % 10)>>

\* "2024-13-01": text that date.fromisoformat rejects
BadDate == <<50, 48, 50, 52, 45, 49, 51, 45, 48, 49>>

----------------------------------------------------------------------------
(* _search_date: parsing one response of the search endpoint.               *)
(* A response is [data, carriers]: data is the list of raw offers and       *)
(* carriers the code -> name dictionary ("" where a code has no entry).     *)
(* A raw offer is [price, itineraries]: price is the optional grandTotal,   *)
(* an itinerary is its list of segments [departure, arrival, carrierCode,   *)
(* operating]. Carrier codes and labels are never sliced or ordered, so     *)
(* they are plain strings, "" standing for a missing code.                  *)

\* for carrier_code in [code, operating]: ... carriers.append(formatted)
RECURSIVE AddCarriers(_, _, _)
AddCarriers(carriers, codes, carrier_map) ==
    IF codes = <<>> THEN carriers
    ELSE LET carrier_code == Head(codes)
             label == IF carrier_code \in DOMAIN carrier_map
                      THEN carrier_map[carrier_code] ELSE ""
             formatted == IF label # "" THEN label ELSE carrier_code
             next == IF carrier_code = "" THEN carriers
                     ELSE IF \E i \in 1..Len(carriers) : carriers[i] = formatted
                          THEN carriers
                          ELSE Append(carriers, formatted)
         IN  AddCarriers(next, Tail(codes), carrier_map)

\* the outbound loop: the codes of every segment are added
RECURSIVE OutboundCarriers(_, _, _)
OutboundCarriers(carriers, segments, carrier_map) ==
    IF segments = <<>> THEN carriers
    ELSE OutboundCarriers(
             AddCarriers(carriers, <<Head(segments).carrierCode, Head(segments).operating>>,
                         carrier_map),
             Tail(segments), carrier_map)

\* the inbound loop: the segment loop only assigns code and operating, and
\* the loop that adds them runs once after it, on the last segment's values
InboundCarriers(carriers, segments, carrier_map) ==
    LET last == segments[Len(segments)]
    IN  AddCarriers(carriers, <<last.carrierCode, last.operating>>, carrier_map)

\* the FlightOffer built from one raw offer that has a positive price
ParseOffer(raw, carrier_map) ==
    LET its == raw.itineraries
        outs == IF Len(its) >= 1 THEN its[1] ELSE <<>>
        ins == IF Len(its) > 1 THEN its[2] ELSE <<>>
        c1 == IF outs # <<>> THEN OutboundCarriers(<<>>, outs, carrier_map) ELSE <<>>
        c2 == IF ins # <<>> THEN InboundCarriers(c1, ins, carrier_map) ELSE c1
    IN  [price |-> raw.price[1],
         outbound_departure |-> IF outs # <<>> THEN outs[1].departure ELSE None,
         outbound_arrival |-> IF outs # <<>> THEN outs[Len(outs)].arrival ELSE None,
         inbound_departure |-> IF ins # <<>> THEN ins[1].departure ELSE None,
         inbound_arrival |-> IF ins # <<>> THEN ins[Len(ins)].arrival ELSE None,
         carriers |-> c2]

\* insert o after every element whose price is <= o.price
RECURSIVE InsertByPrice(_, _)
InsertByPrice(sorted, o) ==
    IF sorted = <<>> THEN <<o>>
    ELSE IF Head(sorted).price <= o.price
         THEN <<Head(sorted)>> \o InsertByPrice(Tail(sorted), o)
         ELSE <<o>> \o sorted

\* list.sort(key=lambda offer: offer.price): a stable sort
RECURSIVE SortByPrice(_)
SortByPrice(seq) ==
    IF seq = <<>> THEN <<>>
    ELSE InsertByPrice(SortByPrice(SubSeq(seq, 1, Len(seq) - 1)), seq[Len(seq)])

RECURSIVE ParseResults(_, _)
ParseResults(data, carrier_map) ==
    IF data = <<>> THEN <<>>
    ELSE LET raw == Head(data)
             rest == ParseResults(Tail(data), carrier_map)
         IN  IF raw.price = <<>> \/ raw.price[1] <= 0 THEN rest
             ELSE <<ParseOffer(raw, carrier_map)>> \o rest

\* the list _search_date returns for a response that was received
ParseOffers(payload) == SortByPrice(ParseResults(payload.data, payload.carriers))

----------------------------------------------------------------------------
(* search_top, lines 249-287: deduplication, grouping and selection *)

departure_key(offer) ==
    IF offer.outbound_departure # None THEN Prefix(offer.outbound_departure, 10)
    ELSE Unknown

return_key(offer) ==
    IF offer.inbound_departure # None THEN Prefix(offer.inbound_departure, 10)
    ELSE Oneway

signature(offer) == <<return_key(offer), offer.price>>

InSeq(x, seq) == \E i \in 1..Len(seq) : seq[i] = x

\* the offers whose key was not seen before, in order (the key is the
\* whole FlightOffer of this model)
RECURSIVE Dedup(_, _)
Dedup(seq, kept) ==
    IF seq = <<>> THEN kept
    ELSE Dedup(Tail(seq), IF InSeq(Head(seq), kept) THEN kept ELSE Append(kept, Head(seq)))

\* grouped.keys(): the departure keys in order of first appearance
RECURSIVE GroupKeys(_, _)
GroupKeys(seq, keys) ==
    IF seq = <<>> THEN keys
    ELSE LET k == departure_key(Head(seq))
         IN  GroupKeys(Tail(seq), IF InSeq(k, keys) THEN keys ELSE Append(keys, k))

\* grouped[key]
RECURSIVE Bucket(_, _)
Bucket(seq, key) ==
    IF seq = <<>> THEN <<>>
    ELSE IF departure_key(Head(seq)) = key
         THEN <<Head(seq)>> \o Bucket(Tail(seq), key)
         ELSE Bucket(Tail(seq), key)

RECURSIVE InsertKey(_, _)
InsertKey(sorted, k) ==
    IF sorted = <<>> THEN <<k>>
    ELSE IF StrLess(k, Head(sorted)) THEN <<k>> \o sorted
         ELSE <<Head(sorted)>> \o InsertKey(Tail(sorted), k)

\* sorted(keys)
RECURSIVE SortedKeys(_)
SortedKeys(keys) ==
    IF keys = <<>> THEN <<>>
    ELSE InsertKey(SortedKeys(Tail(keys)), Head(keys))

RECURSIVE WithoutUnknown(_)
WithoutUnknown(keys) ==
    IF keys = <<>> THEN <<>>
    ELSE IF Head(keys) = Unknown THEN WithoutUnknown(Tail(keys))
         ELSE <<Head(keys)>> \o WithoutUnknown(Tail(keys))

\* ordered_keys: the dated keys sorted, then "unknown" if it is a key
ordered_keys_unsorted(keys) == keys
ordered_keys(keys) ==
    SortedKeys(WithoutUnknown(keys)) \o (IF InSeq(Unknown, keys) THEN <<Unknown>> ELSE <<>>)

\* the loop over one sorted bucket: skip a signature seen before, append,
\* and break once len(selected) >= top_n
RECURSIVE SelectFrom_nodiversity(_, _, _, _)
SelectFrom_nodiversity(bucket, per_return_seen, selected, top_n) ==
    IF bucket = <<>> THEN selected
    ELSE IF Len(selected) + 1 >= top_n
         THEN Append(selected, Head(bucket))
         ELSE SelectFrom_nodiversity(Tail(bucket), per_return_seen,
                                     Append(selected, Head(bucket)), top_n)
RECURSIVE SelectFrom(_, _, _, _)
SelectFrom(bucket, per_return_seen, selected, top_n) ==
    IF bucket = <<>> THEN selected
    ELSE LET offer == Head(bucket)
         IN  IF signature(offer) \in per_return_seen
             THEN SelectFrom(Tail(bucket), per_return_seen, selected, top_n)
             ELSE IF Len(selected) + 1 >= top_n
                  THEN Append(selected, offer)
                  ELSE SelectFrom(Tail(bucket), per_return_seen \cup {signature(offer)},
                                  Append(selected, offer), top_n)

RECURSIVE Flatten_unsorted(_, _, _)
Flatten_unsorted(keys, deduped, top_n) ==
    IF keys = <<>> THEN <<>>
    ELSE SelectFrom(Bucket(deduped, Head(keys)), {}, <<>>, top_n)
         \o Flatten_unsorted(Tail(keys), deduped, top_n)
RECURSIVE Flatten(_, _, _)
Flatten(keys, deduped, top_n) ==
    IF keys = <<>> THEN <<>>
    ELSE SelectFrom(SortByPrice(Bucket(deduped, Head(keys))), {}, <<>>, top_n)
         \o Flatten(Tail(keys), deduped, top_n)

\* the list search_top returns for a non-empty accumulated offer list
SelectTop(accumulated, top_n) ==
    LET deduped == Dedup(accumulated, <<>>)
    IN  Flatten(ordered_keys(GroupKeys(deduped, <<>>)), deduped, top_n)

----------------------------------------------------------------------------
(* Inputs *)

\* the configured (from, to) pairs: none, one bound only, one day, three
\* days (2024-12-31 to 2025-01-02), inverted, malformed
DepartureRanges ==
    {<<None, None>>, <<isoformat(1), None>>, <<isoformat(1), isoformat(1)>>,
     <<isoformat(1), isoformat(3)>>, <<isoformat(3), isoformat(1)>>,
     <<isoformat(1), BadDate>>}

ReturnRanges ==
    {<<None, None>>, <<isoformat(1), isoformat(1)>>, <<isoformat(2), isoformat(3)>>,
     <<isoformat(3), isoformat(2)>>, <<BadDate, isoformat(3)>>}

TripTypes == {"one_way", "round_trip", "multi_city"}

\* RouteConfig as load_config builds it. origin, destination and currency
\* only label the output and are left out; the configuration is immutable
\* and top_n is read by the selection alone, so it is drawn where the
\* selection reads it (TopNs).
Routes ==
    {[trip_type |-> tt, days_ahead |-> da, date_from |-> dr[1], date_to |-> dr[2],
      return_days |-> rd, return_date_from |-> rr[1], return_date_to |-> rr[2]] :
        tt \in TripTypes, da \in 0..MaxDaysAhead, dr \in DepartureRanges,
        rd \in {<<>>} \cup {<<n>> : n \in 1..MaxReturnDays}, rr \in ReturnRanges}

\* int(route.get("top_n", 5)): any integer the file holds
TopNs == -1..MaxTopN

\* AMADEUS_SEARCH_SPAN_DAYS
SpanDays == 0..MaxSpanDays

\* date.today()
Todays == {0, 1}

Segment(o, h, code, operating) ==
    [departure |-> Timestamp(o, h), arrival |-> Timestamp(o, h + 2),
     carrierCode |-> code, operating |-> operating]

\* a raw offer for the dates asked for: one itinerary out and, for a round
\* trip, one back
RawOffer(price, dep, ret) ==
    [price |-> price,
     itineraries |-> IF ret = None THEN <<<<Segment(dep, 8, "AC", "")>>>>
                     ELSE <<<<Segment(dep, 8, "AC", "")>>, <<Segment(ret[1], 8, "AC", "")>>>>]

NoCarriers == [c \in {} |-> ""]

\* the grandTotal values the service quotes in a sweep
QuotedPrices == {1, 2}

\* what the search endpoint may answer to a request for (dep, ret): nothing,
\* only offers without a usable price, or one priced offer after such an one
ServicePayloads(dep, ret) ==
    {[data |-> <<>>, carriers |-> NoCarriers],
     [data |-> <<RawOffer(<<>>, dep, ret), RawOffer(<<0>>, dep, ret)>>, carriers |-> NoCarriers]}
    \cup {[data |-> <<RawOffer(<<0>>, dep, ret), RawOffer(<<p>>, dep, ret)>>,
           carriers |-> NoCarriers] : p \in QuotedPrices}

\* what one _search_date call may do: raise in _get_token, raise in the
\* search request, or return the parsed offers of the response. The sweep
\* reads nothing of the token cache but this outcome; the cache and the
\* clock are the state of SpecToken.
FetchResults(dep, ret) ==
    {[kind |-> "error", reason |-> "auth"], [kind |-> "error", reason |-> "search"]}
    \cup {[kind |-> "offers", offers |-> ParseOffers(p)] : p \in ServicePayloads(dep, ret)}

----------------------------------------------------------------------------
(* search_top, lines 163-190: validation and the two date ranges *)

HasRange(from, to) == from # None /\ to # None

Failure(kind, reason) ==
    [status |-> kind, reason |-> reason, start_date |-> 0, span |-> 0, return_dates |-> <<>>,
     today |-> None]

\* min((end_date - start_date).days + 1, max_span)
RangeSpan_uncapped(start, end, ms) == end - start + 1
RangeSpan(start, end, ms) == Min(end - start + 1, ms)

\* date.today() + timedelta(days=1)
Tomorrow(td) == td + 1

\* [start + offset for offset in range(n)]
DateList(start, n) == IF n <= 0 THEN <<>> ELSE [i \in 1..n |-> start + (i - 1)]

Prepare(r, ms, td) ==
    LET dep == HasRange(r.date_from, r.date_to)
        ret == HasRange(r.return_date_from, r.return_date_to)
    IN  IF r.trip_type \notin {"one_way", "round_trip"}
        THEN Failure("ProviderError", "trip_type")
        ELSE IF dep /\ (~IsIsoDate(r.date_from) \/ ~IsIsoDate(r.date_to))
        THEN Failure("ValueError", "date")
        ELSE IF dep /\ fromisoformat(r.date_to) < fromisoformat(r.date_from)
        THEN Failure("ProviderError", "date_to")
        ELSE IF r.trip_type = "round_trip" /\ r.return_days = <<>> /\ ~ret
        THEN Failure("ProviderError", "return")
        ELSE IF ret /\ (~IsIsoDate(r.return_date_from) \/ ~IsIsoDate(r.return_date_to))
        THEN Failure("ValueError", "return_date")
        ELSE IF ret /\ fromisoformat(r.return_date_to) < fromisoformat(r.return_date_from)
        THEN Failure("ProviderError", "return_date_to")
        ELSE [status |-> "ok", reason |-> "",
              start_date |-> IF dep THEN fromisoformat(r.date_from) ELSE Tomorrow(td),
              span |-> IF dep
                       THEN RangeSpan(fromisoformat(r.date_from), fromisoformat(r.date_to), ms)
                       ELSE Min(r.days_ahead, ms),
              return_dates |->
                  IF ret
                  THEN DateList(fromisoformat(r.return_date_from),
                                RangeSpan(fromisoformat(r.return_date_from),
                                          fromisoformat(r.return_date_to), ms))
                  ELSE <<>>,
              today |-> IF dep THEN None ELSE <<td>>]

----------------------------------------------------------------------------
(* run_check and the sweep of search_top *)

\* the variables of the token cache and of the selection check where the
\* specification at hand does not use them
IdleToken ==
    /\ token = ""
    /\ token_expiry = 0
    /\ now = 0
    /\ credentials = TRUE
    /\ acquired = <<>>
    /\ last_call = <<>>

IdleSelection ==
    /\ sel_offers = <<>>
    /\ sel_top_n = 0
    /\ sel_out = <<>>

IdleParse ==
    /\ par_raw = None
    /\ par_carriers = None
    /\ par_out = None

\* run_check before its first route
IdleSweep ==
    /\ routeIdx = 0
    /\ route = None
    /\ route_top_n = None
    /\ today = None
    /\ max_span = 0
    /\ start_date = 0
    /\ span = 0
    /\ return_dates = <<>>
    /\ offset = 0
    /\ rpos = 1
    /\ offers = <<>>
    /\ visited = <<>>
    /\ events = <<>>
    /\ result = <<>>
    /\ raised = ""
    /\ outcomes = <<>>
    /\ history = <<>>
    /\ exit_code = 0

Init ==
    /\ pc = "route"
    /\ IdleSweep
    /\ IdleToken
    /\ IdleSelection
    /\ IdleParse

\* except ProviderError: print the error, exit_code = 1, continue
RouteFailed(reason) ==
    /\ raised' = reason
    /\ outcomes' = Append(outcomes, [route |-> routeIdx', kind |-> "error"])
    /\ exit_code' = 1
    /\ pc' = "reported"
    /\ UNCHANGED history

\* run_check takes the next route and calls search_top, which validates the
\* request and computes the date ranges
BeginRoute ==
    /\ pc = "route"
    /\ routeIdx < NumRoutes
    /\ \E r \in Routes, ms \in SpanDays, td \in Todays :
         LET prep == Prepare(r, ms, td)
         IN  /\ routeIdx' = routeIdx + 1
             /\ route' = r
             /\ route_top_n' = None
             /\ max_span' = ms
             /\ today' = prep.today
             /\ start_date' = prep.start_date
             /\ span' = prep.span
             /\ return_dates' = prep.return_dates
             /\ offset' = 0
             /\ rpos' = 1
             /\ offers' = <<>>
             /\ visited' = <<>>
             /\ events' = <<>>
             /\ result' = <<>>
             /\ IF prep.status = "ok"
                THEN pc' = "outer" /\ UNCHANGED <<raised, outcomes, history, exit_code>>
                ELSE IF prep.status = "ProviderError"
                THEN RouteFailed(prep.reason)
                ELSE pc' = "crashed" /\ UNCHANGED <<raised, outcomes, history, exit_code>>
    /\ UNCHANGED <<tokenVars, selVars, parseVars>>

departure_date == start_date + offset

RangeSweep == route.trip_type = "round_trip" /\ return_dates # <<>>

\* for offset in range(span): departure_date = start_date + offset
EnterDeparture ==
    /\ pc = "outer"
    /\ offset < span
    /\ visited' = Append(visited, departure_date)
    /\ rpos' = 1
    /\ pc' = "inner"
    /\ UNCHANGED <<routeIdx, route, route_top_n, today, max_span, start_date, span, return_dates,
                   offset, offers, events, result, raised, outcomes, history, exit_code,
                   tokenVars, selVars, parseVars>>

\* the end of one pass of the loop over return_dates, or of the single
\* call of a departure date
Advance ==
    IF RangeSweep /\ rpos < Len(return_dates)
    THEN rpos' = rpos + 1 /\ pc' = "inner" /\ UNCHANGED offset
    ELSE rpos' = 1 /\ pc' = "outer" /\ offset' = offset + 1

\* the return date of the pairing at hand
PairingReturn ==
    IF route.trip_type = "round_trip"
    THEN IF return_dates # <<>> THEN <<return_dates[rpos]>>
         ELSE <<departure_date + route.return_days[1]>>
    ELSE None

Skipped_strict(return_date, departure) == return_date <= departure
Skipped(return_date, departure) == return_date < departure

\* if return_date < departure_date: continue
SkipReturn ==
    /\ pc = "inner"
    /\ RangeSweep
    /\ Skipped(return_dates[rpos], departure_date)
    /\ Advance
    /\ UNCHANGED <<routeIdx, route, route_top_n, today, max_span, start_date, span, return_dates,
                   offers, visited, events, result, raised, outcomes, history, exit_code,
                   tokenVars, selVars, parseVars>>

\* the "(offset + 1/span)" of the progress message
Progress == [index |-> offset + 1, total |-> span]

\* _search_date raised: the error leaves search_top and run_check reports it
Propagate_swallowed(reason) ==
    /\ Advance
    /\ UNCHANGED <<routeIdx, offers, raised, outcomes, history, exit_code>>
Propagate(reason) ==
    /\ routeIdx' = routeIdx
    /\ RouteFailed(reason)
    /\ UNCHANGED <<offers, offset, rpos>>

\* print(message); offers.extend(self._search_date(...))
SearchPairing ==
    /\ pc = "inner"
    /\ RangeSweep => ~Skipped(return_dates[rpos], departure_date)
    /\ LET ret == PairingReturn
           rtext == IF ret = None THEN None ELSE isoformat(ret[1])
           note == [kind |-> "note", departure |-> isoformat(departure_date),
                    return |-> rtext, index |-> Progress.index, total |-> Progress.total,
                    raised |-> FALSE]
           call(res) == [kind |-> "fetch", departure |-> isoformat(departure_date),
                         return |-> rtext, index |-> 0, total |-> 0,
                         raised |-> (res.kind = "error")]
       IN  \E res \in FetchResults(departure_date, ret) :
             /\ events' = events \o <<note, call(res)>>
             /\ IF res.kind = "error"
                THEN Propagate(res.reason)
                ELSE /\ offers' = offers \o res.offers
                     /\ Advance
                     /\ UNCHANGED <<routeIdx, raised, outcomes, history, exit_code>>
    /\ UNCHANGED <<route, route_top_n, today, max_span, start_date, span, return_dates, visited,
                   result, tokenVars, selVars, parseVars>>

\* min(offers, key=lambda offer: offer.price).price
RECURSIVE MinPrice(_)
MinPrice(seq) ==
    IF Len(seq) = 1 THEN seq[1].price ELSE Min(seq[1].price, MinPrice(Tail(seq)))

\* if not offers: raise ProviderError("No flights returned by Amadeus API.")
RaiseNoOffers_returnsEmpty ==
    /\ pc' = "crashed"
    /\ UNCHANGED <<result, route_top_n, raised, outcomes, history, exit_code>>
RaiseNoOffers == RouteFailed("no_offers") /\ UNCHANGED <<result, route_top_n>>

\* the loop is over: search_top raises for no offers or returns the
\* selection, and run_check appends the cheapest price to the history
EndSweep ==
    /\ pc = "outer"
    /\ offset >= span
    /\ routeIdx' = routeIdx
    /\ IF offers = <<>>
       THEN RaiseNoOffers
       ELSE /\ \E tn \in TopNs : route_top_n' = <<tn>>
            /\ result' = SelectTop(offers, route_top_n'[1])
            /\ history' = Append(history, [route |-> routeIdx, price |-> MinPrice(result')])
            /\ outcomes' = Append(outcomes, [route |-> routeIdx, kind |-> "cheapest"])
            /\ pc' = "reported"
            /\ UNCHANGED <<raised, exit_code>>
    /\ UNCHANGED <<route, today, max_span, start_date, span, return_dates, offset, rpos,
                   offers, visited, events, tokenVars, selVars, parseVars>>

\* the end of one iteration of "for route in config.routes": the frame of
\* search_top and the output of the route are left behind
NextRoute ==
    /\ pc = "reported"
    /\ pc' = "route"
    /\ route' = None
    /\ route_top_n' = None
    /\ today' = None
    /\ max_span' = 0
    /\ start_date' = 0
    /\ span' = 0
    /\ return_dates' = <<>>
    /\ offset' = 0
    /\ rpos' = 1
    /\ offers' = <<>>
    /\ visited' = <<>>
    /\ events' = <<>>
    /\ result' = <<>>
    /\ raised' = ""
    /\ UNCHANGED <<routeIdx, outcomes, history, exit_code, tokenVars, selVars, parseVars>>

\* return exit_code
Return ==
    /\ pc = "route"
    /\ routeIdx = NumRoutes
    /\ pc' = "done"
    /\ UNCHANGED <<routeIdx, route, route_top_n, today, max_span, start_date, span, return_dates,
                   offset, rpos, offers, visited, events, result, raised, outcomes, history,
                   exit_code, tokenVars, selVars, parseVars>>

Next ==
    \/ BeginRoute \/ EnterDeparture \/ SkipReturn \/ SearchPairing \/ EndSweep
    \/ NextRoute \/ Return

Spec == Init /\ [][Next]_vars

----------------------------------------------------------------------------
(* _get_token: the token cache. Time is in seconds from the construction   *)
(* of the provider.                                                        *)

SafetyMargin == 30

\* the expires_in the auth endpoint may declare
ExpiresIn == {0, 29, 31, 32}

\* seconds that pass before a call, and between the two time.time() of a call
Delays == {0, 1, 2}

AccessTokens == {"tokA", "tokB"}

\* what the auth endpoint may do: fail, answer without an access token, or
\* grant one
AuthResponses ==
    {[kind |-> "error", access_token |-> "", expires_in |-> 0],
     [kind |-> "payload", access_token |-> "", expires_in |-> 0]}
    \cup {[kind |-> "payload", access_token |-> t, expires_in |-> e] :
            t \in AccessTokens, e \in ExpiresIn}

\* if self._token and time.time() < self._token_expiry
Reusable(tok, t, expiry) == tok # "" /\ t < expiry

\* time.time() + max(expires_in - 30, 0)
Expiry_nomargin(t, expires_in) == t + expires_in
Expiry(t, expires_in) == t + Max(expires_in - SafetyMargin, 0)

InitToken ==
    /\ pc = "token"
    /\ IdleSweep
    /\ IdleSelection
    /\ IdleParse
    /\ token = ""
    /\ token_expiry = 0
    /\ now = 0
    /\ credentials \in BOOLEAN
    /\ acquired = <<>>
    /\ last_call = <<>>

\* one call of _get_token, made wait seconds after the last one
GetToken ==
    /\ pc = "token"
    /\ \E wait \in Delays, latency \in Delays, resp \in AuthResponses :
         LET t == now + wait
         IN  /\ t + latency <= MaxTime
             /\ IF Reusable(token, t, token_expiry)
                THEN /\ now' = t
                     /\ last_call' = <<[at |-> t, path |-> "cached", outcome |-> "token",
                                        returned |-> token, before |-> acquired]>>
                     /\ UNCHANGED <<token, token_expiry, acquired>>
                ELSE IF ~credentials
                THEN /\ now' = t
                     /\ last_call' = <<[at |-> t, path |-> "no_secrets", outcome |-> "error",
                                        returned |-> "", before |-> acquired]>>
                     /\ UNCHANGED <<token, token_expiry, acquired>>
                ELSE IF resp.kind = "error" \/ resp.access_token = ""
                THEN /\ now' = t + latency
                     /\ last_call' = <<[at |-> t, path |-> "exchange", outcome |-> "error",
                                        returned |-> "", before |-> acquired]>>
                     /\ UNCHANGED <<token, token_expiry, acquired>>
                ELSE /\ now' = t + latency
                     /\ token' = resp.access_token
                     /\ token_expiry' = Expiry(t + latency, resp.expires_in)
                     /\ acquired' = <<[at |-> t + latency, expires_in |-> resp.expires_in,
                                       token |-> resp.access_token]>>
                     /\ last_call' = <<[at |-> t, path |-> "exchange", outcome |-> "token",
                                        returned |-> resp.access_token,
                                        before |-> acquired]>>
    /\ UNCHANGED <<credentials, sweepVars, selVars, parseVars>>

NextToken == GetToken

SpecToken == InitToken /\ [][NextToken]_vars

----------------------------------------------------------------------------
(* The selection of search_top on its own: any accumulated offer list and  *)
(* any top_n.                                                              *)

\* the prices of the accumulated offers
Prices == {1, 2}

\* outbound departures: none, two on 2024-12-31, one on 2025-01-01
OutboundTimes == {None, Timestamp(1, 8), Timestamp(1, 20), Timestamp(2, 8)}

\* inbound departures: none (one way) or 2025-01-02
InboundTimes == {None, Timestamp(3, 8)}

\* the FlightOffers _search_date may have built
FlightOffers ==
    {[price |-> p, outbound_departure |-> od,
      outbound_arrival |-> IF od = None THEN None ELSE Timestamp(2, 23),
      inbound_departure |-> id,
      inbound_arrival |-> IF id = None THEN None ELSE Timestamp(3, 23),
      carriers |-> <<"AC">>] :
        p \in Prices, od \in OutboundTimes, id \in InboundTimes}

SeqsUpTo(S, n) == UNION {[1..k -> S] : k \in 1..n}

InitSelect ==
    /\ pc = "select"
    /\ IdleSweep
    /\ IdleToken
    /\ sel_offers \in SeqsUpTo(FlightOffers, MaxOffers)
    /\ sel_top_n \in TopNs
    /\ sel_out = <<>>
    /\ IdleParse

\* search_top from "seen: set[tuple] = set()" to "return flattened"
Select ==
    /\ pc = "select"
    /\ sel_out' = SelectTop(sel_offers, sel_top_n)
    /\ pc' = "selected"
    /\ UNCHANGED <<routeIdx, route, route_top_n, today, max_span, start_date, span,
                   return_dates, offset, rpos, offers, visited, events, result, raised,
                   outcomes, history, exit_code, tokenVars, sel_offers, sel_top_n,
                   parseVars>>

NextSelect == Select

SpecSelect == InitSelect /\ [][NextSelect]_vars

----------------------------------------------------------------------------
(* The parsing of _search_date on its own: one priced raw offer with any   *)
(* outbound and inbound segments, and any carrier dictionary.              *)

\* carrierCode and operating.carrierCode of a segment, "" where absent
SegmentCodes == {"", "AC", "LH"} \X {"", "UA"}

\* an itinerary of k segments on the day o, three hours apart
Itinerary(o, k, codes) == [i \in 1..k |-> Segment(o, 8 + 3 * (i - 1), codes[i][1], codes[i][2])]

OutboundItineraries ==
    UNION {{Itinerary(1, k, codes) : codes \in [1..k -> {<<"AC", "">>, <<"LH", "UA">>}]} :
             k \in 1..MaxSegments}

\* the second itinerary: without segments, or with up to MaxSegments
InboundItineraries ==
    {<<>>} \cup UNION {{Itinerary(3, k, codes) : codes \in [1..k -> SegmentCodes]} :
                         k \in 1..MaxSegments}

\* one way (one itinerary) or round trip (two)
RawOffers ==
    {[price |-> <<1>>, itineraries |-> <<out>>] : out \in OutboundItineraries}
    \cup {[price |-> <<1>>, itineraries |-> <<out, in>>] :
            out \in OutboundItineraries, in \in InboundItineraries}

\* dictionaries.carriers: empty, one code named, all codes under one name
CarrierMaps ==
    {NoCarriers, [c \in {"AC"} |-> "AIR CANADA"], [c \in {"AC", "LH", "UA"} |-> "STAR"]}

InitParse ==
    /\ pc = "parse"
    /\ IdleSweep
    /\ IdleToken
    /\ IdleSelection
    /\ par_raw \in RawOffers
    /\ par_carriers \in CarrierMaps
    /\ par_out = None

\* _search_date from "offers = payload.get("data", [])" to "return results"
Parse ==
    /\ pc = "parse"
    /\ par_out' = ParseOffers([data |-> <<par_raw>>, carriers |-> par_carriers])
    /\ pc' = "parsed"
    /\ UNCHANGED <<routeIdx, route, route_top_n, today, max_span, start_date, span,
                   return_dates, offset, rpos, offers, visited, events, result, raised,
                   outcomes, history, exit_code, tokenVars, selVars, par_raw, par_carriers>>

NextParse == Parse

SpecParse == InitParse /\ [][NextParse]_vars

----------------------------------------------------------------------------
(* What the claims speak of, stated from the configuration and the output *)

\* the loop of search_top has run to its end
SweepComplete == pc = "outer" /\ offset >= span

Calls == SelectSeq(events, LAMBDA e : e.kind = "fetch")

HistoryOf(i) == {k \in 1..Len(history) : history[k].route = i}

\* the dates of a configured range, cut at the ceiling
ClaimedRange(from, to) ==
    {fromisoformat(from) + i :
        i \in 0..(Min(fromisoformat(to) - fromisoformat(from) + 1, max_span) - 1)}

ClaimedDepartures ==
    IF HasRange(route.date_from, route.date_to)
    THEN ClaimedRange(route.date_from, route.date_to)
    ELSE {today[1] + 1 + i : i \in 0..(Min(route.days_ahead, max_span) - 1)}

ClaimedPairings ==
    IF route.trip_type = "one_way"
    THEN {<<isoformat(d), None>> : d \in ClaimedDepartures}
    ELSE IF HasRange(route.return_date_from, route.return_date_to)
    THEN {<<isoformat(p[1]), isoformat(p[2])>> :
            p \in {q \in ClaimedDepartures
                          \X ClaimedRange(route.return_date_from, route.return_date_to) :
                     q[2] >= q[1]}}
    ELSE {<<isoformat(d), isoformat(d + route.return_days[1])>> : d \in ClaimedDepartures}

\* call a comes before call b in departure date, then in return date
CallBefore(a, b) ==
    \/ fromisoformat(a.departure) < fromisoformat(b.departure)
    \/ /\ a.departure = b.departure
       /\ a.return # None /\ b.return # None
       /\ fromisoformat(a.return) < fromisoformat(b.return)

----------------------------------------------------------------------------
(* C1: in run_check, a route whose search fails with an error kind of the  *)
(* spec gets an error message and no history record, and every later route *)
(* is still processed: when run_check is over, every configured route has  *)
(* its line, and no route with an error line has a history record.         *)
C1_FailureIsolated ==
    (pc \in {"done", "crashed"}) =>
        \A i \in 1..NumRoutes :
            /\ \E k \in 1..Len(outcomes) : outcomes[k].route = i
            /\ \A k \in 1..Len(outcomes) :
                 (outcomes[k].route = i /\ outcomes[k].kind = "error") => HistoryOf(i) = {}

(* C2: if the fetch call of a pairing raises, the error leaves search_top: *)
(* the raising call is the last call of the sweep, no offer list is        *)
(* returned (the offers of earlier calls included), and the route is       *)
(* reported as failed without a history record.                            *)
C2_FetchErrorAborts ==
    \A i \in 1..Len(events) :
        events[i].raised =>
            /\ i = Len(events)
            /\ pc = "reported"
            /\ raised \in {"auth", "search"}
            /\ result = <<>>
            /\ outcomes[Len(outcomes)] = [route |-> routeIdx, kind |-> "error"]
            /\ HistoryOf(routeIdx) = {}

\* a call raised after an earlier call had returned an offer, with a
\* departure date of the sweep still to come
C2_Witness ==
    /\ pc = "reported"
    /\ Len(events) >= 4
    /\ events[Len(events)].raised
    /\ offers # <<>>
    /\ offset + 1 < span

(* C3: in a sweep that raises no error the fetch calls are, in ascending   *)
(* departure date and then ascending return date: for a round trip with an *)
(* explicit return range, every date of the expanded return range that is  *)
(* not earlier than the departure; for a round trip with return_days, the  *)
(* one date departure + return_days; for a one-way trip, one call without  *)
(* return date. No pairing is fetched twice.                               *)
C3_FetchSequence ==
    SweepComplete =>
        /\ {<<Calls[k].departure, Calls[k].return>> : k \in 1..Len(Calls)} = ClaimedPairings
        /\ \A j, k \in 1..Len(Calls) : j < k => CallBefore(Calls[j], Calls[k])

\* a cross-product sweep that skipped a return date and fetched a pairing
\* whose return date is the departure date
C3_Witness ==
    /\ SweepComplete
    /\ RangeSweep
    /\ Len(Calls) >= 3
    /\ \E k \in 1..Len(Calls) : Calls[k].departure = Calls[k].return
    /\ \E d \in 1..Len(visited), r \in 1..Len(return_dates) : return_dates[r] < visited[d]

(* C4: every fetch call is immediately preceded by one progress            *)
(* notification that names the pairing and cites index/total, index being  *)
(* the 1-based position of the pairing among the pairings of the sweep and *)
(* total the number of pairings of the sweep.                              *)
C4_ProgressCitesPairing ==
    SweepComplete =>
        /\ Len(events) = 2 * Len(Calls)
        /\ \A k \in 1..Len(Calls) :
             /\ events[2 * k - 1].kind = "note"
             /\ events[2 * k].kind = "fetch"
             /\ events[2 * k - 1].departure = events[2 * k].departure
             /\ events[2 * k - 1].return = events[2 * k].return
             /\ events[2 * k - 1].index = k
             /\ events[2 * k - 1].total = Len(Calls)

(* C6: a sweep that ends with no accumulated offer fails with the          *)
(* no-offers error and returns no list; and a round trip whose explicit    *)
(* return dates are all earlier than all its departure dates makes no      *)
(* fetch call and ends with that error.                                    *)
C6_NoOffers ==
    [][(SweepComplete =>
          /\ (route.trip_type = "round_trip"
              /\ HasRange(route.return_date_from, route.return_date_to)
              /\ \A d \in ClaimedDepartures :
                   \A r \in ClaimedRange(route.return_date_from, route.return_date_to) :
                      r < d)
             => (events = <<>> /\ offers = <<>>)
          /\ offers = <<>> =>
               /\ pc' = "reported"
               /\ raised' = "no_offers"
               /\ result' = <<>>
               /\ outcomes' = Append(outcomes, [route |-> routeIdx, kind |-> "error"])
               /\ history' = history)]_vars

\* a round trip departing 2024-12-31 to 2025-01-01 with the return range
\* 2024-12-31 to 2024-12-31 under a ceiling of one day ended without offers
\* after a sweep in which every return date was earlier than every departure
C6_Witness ==
    /\ pc = "reported"
    /\ raised = "no_offers"
    /\ route.trip_type = "round_trip"
    /\ return_dates # <<>>
    /\ visited # <<>>
    /\ \A d \in 1..Len(visited), r \in 1..Len(return_dates) : return_dates[r] < visited[d]
    /\ events = <<>>

(* C7: the departure dates search_top sweeps are the first                 *)
(* min(date_to - date_from + 1, max_span) consecutive dates from date_from *)
(* for an explicit range, and the first min(days_ahead, max_span) dates    *)
(* from tomorrow otherwise: ascending, without gap, never today.           *)
C7_DepartureDates ==
    SweepComplete =>
        LET explicit == HasRange(route.date_from, route.date_to)
            n == IF explicit
                 THEN Min(fromisoformat(route.date_to) - fromisoformat(route.date_from) + 1,
                          max_span)
                 ELSE Min(route.days_ahead, max_span)
        IN  /\ Len(visited) = Max(n, 0)
            /\ \A i \in 1..(Len(visited) - 1) : visited[i + 1] = visited[i] + 1
            /\ visited # <<>> =>
                 IF explicit THEN isoformat(visited[1]) = route.date_from
                 ELSE visited[1] = today[1] + 1 /\ today[1] \notin
                        {visited[i] : i \in 1..Len(visited)}

\* a three-day explicit range cut to the ceiling of two days
C7_Witness ==
    /\ SweepComplete
    /\ HasRange(route.date_from, route.date_to)
    /\ fromisoformat(route.date_to) - fromisoformat(route.date_from) + 1 > max_span
    /\ Len(visited) = 2

\* a sweep from tomorrow over days_ahead days, below the ceiling
C7_WitnessDaysAhead ==
    /\ SweepComplete
    /\ ~HasRange(route.date_from, route.date_to)
    /\ route.days_ahead < max_span
    /\ visited # <<>>

(* C5: over the _get_token calls of one provider at non-decreasing times,  *)
(* a call returns the token obtained before, without a remote auth call,   *)
(* exactly when a token was obtained and the time of the call is before    *)
(* (time of the last successful acquisition + expires_in - 30 seconds);    *)
(* every other call takes the acquisition path: with the secrets present   *)
(* the credential exchange is called, and without them, or when the        *)
(* exchange yields no token, the call fails and the cache is left as it    *)
(* was.                                                                    *)
C5_TokenCache ==
    last_call # <<>> =>
        LET c == last_call[1]
            fresh == /\ c.before # <<>>
                     /\ c.at < c.before[1].at + c.before[1].expires_in - 30
        IN  /\ (c.path = "cached") <=> fresh
            /\ (c.path = "exchange") <=> (~fresh /\ credentials)
            /\ (c.path = "no_secrets") <=> (~fresh /\ ~credentials)
            /\ c.path = "cached" =>
                 /\ c.outcome = "token"
                 /\ c.returned = c.before[1].token
                 /\ acquired = c.before
            /\ c.path = "no_secrets" => c.outcome = "error"
            /\ c.outcome = "error" => (acquired = c.before /\ c.returned = "")
            /\ (c.path = "exchange" /\ c.outcome = "token") =>
                 /\ acquired # <<>>
                 /\ acquired[1].token = c.returned
                 /\ acquired[1].at >= c.at
                 /\ c.returned # ""

\* a call made exactly 30 seconds before the declared expiry of a token
\* that was declared to live more than 30 seconds: the exchange is called
C5_Witness ==
    /\ last_call # <<>>
    /\ last_call[1].path = "exchange"
    /\ last_call[1].before # <<>>
    /\ last_call[1].before[1].expires_in > 30
    /\ last_call[1].at = last_call[1].before[1].at + last_call[1].before[1].expires_in - 30

\* a call made after time has passed, one second before that instant: the
\* token is reused
C5_WitnessReuse ==
    /\ last_call # <<>>
    /\ last_call[1].path = "cached"
    /\ last_call[1].at = last_call[1].before[1].at + last_call[1].before[1].expires_in - 31
    /\ last_call[1].at > last_call[1].before[1].at

(* C8: for every top_n the configuration can supply and every non-empty    *)
(* accumulated offer list, the list search_top returns holds at most top_n *)
(* offers of each bucket key.                                              *)
C8_AtMostTopN ==
    pc = "selected" =>
        \A i \in 1..Len(sel_out) :
            Cardinality({j \in 1..Len(sel_out) :
                           departure_key(sel_out[j]) = departure_key(sel_out[i])})
                <= sel_top_n

(* C9: in the list search_top returns, the offers of one bucket are        *)
(* contiguous, their prices do not decrease, and no two of them have the   *)
(* same return signature.                                                  *)
C9_BucketOrder ==
    pc = "selected" =>
        \A i, j \in 1..Len(sel_out) :
            (i < j /\ departure_key(sel_out[i]) = departure_key(sel_out[j])) =>
                /\ \A k \in i..j : departure_key(sel_out[k]) = departure_key(sel_out[i])
                /\ sel_out[i].price <= sel_out[j].price
                /\ signature(sel_out[i]) # signature(sel_out[j])

\* three offers of one day came in as price 2, price 1, price 1, the last
\* two one-way at different hours: the list is the first price 1, then price 2
C9_Witness ==
    /\ pc = "selected"
    /\ Len(sel_offers) = 3
    /\ sel_top_n = 2
    /\ sel_offers[1].price > sel_offers[2].price
    /\ sel_offers[2] # sel_offers[3]
    /\ signature(sel_offers[2]) = signature(sel_offers[3])
    /\ \A i \in 1..3 : departure_key(sel_offers[i]) = departure_key(sel_offers[1])
    /\ sel_out = <<sel_offers[2], sel_offers[1]>>

(* C10: in the list search_top returns, the buckets are in ascending order *)
(* of their outbound calendar date, and the offers without outbound        *)
(* departure come after every offer that has one.                          *)
C10_BucketsChronological ==
    pc = "selected" =>
        \A i, j \in 1..Len(sel_out) :
            i < j =>
                /\ sel_out[i].outbound_departure = None => sel_out[j].outbound_departure = None
                /\ (sel_out[i].outbound_departure # None
                    /\ sel_out[j].outbound_departure # None) =>
                      fromisoformat(Prefix(sel_out[i].outbound_departure, 10))
                        <= fromisoformat(Prefix(sel_out[j].outbound_departure, 10))

\* the offers came in as undated, 2025-01-01, 2024-12-31 and all three are
\* in the list
C10_Witness ==
    /\ pc = "selected"
    /\ Len(sel_offers) = 3
    /\ sel_offers[1].outbound_departure = None
    /\ sel_offers[2].outbound_departure = Timestamp(2, 8)
    /\ sel_offers[3].outbound_departure = Timestamp(1, 20)
    /\ Len(sel_out) = 3

\* the label the carrier list shows for a code
LabelOf(code) ==
    IF code \in DOMAIN par_carriers /\ par_carriers[code] # "" THEN par_carriers[code]
    ELSE code

\* the inbound segments of the raw offer
InboundSegments ==
    IF Len(par_raw.itineraries) > 1 THEN par_raw.itineraries[2] ELSE <<>>

(* C11: the carrier list of a parsed offer holds the label of the carrier  *)
(* code and of the operating carrier code of every inbound segment,        *)
(* without duplicates and in first-seen order: the list the outbound rule  *)
(* gives when it is applied to the outbound and then the inbound segments. *)
C11_InboundCarriers ==
    pc = "parsed" =>
        /\ Len(par_out) = 1
        /\ \A i \in 1..Len(InboundSegments) :
             \A code \in {InboundSegments[i].carrierCode, InboundSegments[i].operating} :
                code # "" => InSeq(LabelOf(code), par_out[1].carriers)
        /\ \A i, j \in 1..Len(par_out[1].carriers) :
             i # j => par_out[1].carriers[i] # par_out[1].carriers[j]
        /\ par_out[1].carriers =
             OutboundCarriers(OutboundCarriers(<<>>, par_raw.itineraries[1], par_carriers),
                              InboundSegments, par_carriers)

(* C12: for every non-empty accumulated offer list and every top_n, the    *)
(* cheapest price of the list search_top returns is the cheapest price of  *)
(* the accumulated offers: the list is not empty, each of its offers is an *)
(* accumulated offer, and one of them is as cheap as every accumulated     *)
(* offer.                                                                  *)
C12_CheapestKept ==
    pc = "selected" =>
        /\ sel_out # <<>>
        /\ \A i \in 1..Len(sel_out) : InSeq(sel_out[i], sel_offers)
        /\ \E i \in 1..Len(sel_out) :
             \A j \in 1..Len(sel_offers) : sel_out[i].price <= sel_offers[j].price

\* three offers of one day came in dearest first and top_n is 1: the list
\* is the cheapest, which came last
C12_Witness ==
    /\ pc = "selected"
    /\ Len(sel_offers) = 3
    /\ sel_top_n = 1
    /\ \A i \in 1..3 : departure_key(sel_offers[i]) = departure_key(sel_offers[1])
    /\ sel_offers[1].price > sel_offers[3].price
    /\ sel_offers[2].price > sel_offers[3].price
    /\ sel_out = <<sel_offers[3]>>

(* C12, in run_check: the price appended to the history for a route whose  *)
(* search succeeded is the cheapest price among the offers fetched in its  *)
(* sweep.                                                                  *)
C12_HistoryCheapest ==
    (pc = "reported" /\ raised = "") =>
        /\ offers # <<>>
        /\ history # <<>>
        /\ history[Len(history)].route = routeIdx
        /\ \E i \in 1..Len(offers) : offers[i].price = history[Len(history)].price
        /\ \A i \in 1..Len(offers) : history[Len(history)].price <= offers[i].price

\* a sweep fetched a price 2 and then a price 1 for one departure date,
\* top_n is 1 and the history got 1
C12_WitnessHistory ==
    /\ pc = "reported"
    /\ raised = ""
    /\ route_top_n = <<1>>
    /\ Len(offers) >= 2
    /\ offers[1].price > offers[2].price
    /\ departure_key(offers[1]) = departure_key(offers[2])
    /\ history[Len(history)].price = offers[2].price

====
